---- MODULE Spec2Model ----
(***************************************************************************)
(* Model of the template downloader of src/src/index.js: the recursive     *)
(* directory mirror (getFilesInDirectory, downloadFile, downloadDirectory),*)
(* its caller downloadTemplate, the post-pass decodeFilePaths, the steps   *)
(* after it (updateWorkspaceVersions, updateApiKey) and the prompts of     *)
(* main (the project-name validation, filterTemplates).                    *)
(*                                                                         *)
(* Spec is the mirror with the steps after it; SpecDecode the name walk;   *)
(* SpecPost and SpecApiKey the two updates over manifests and over files;  *)
(* SpecName and SpecTemplates the prompts.                                 *)
(*                                                                         *)
(* Scheduling is that of the JavaScript event loop: an action is one I/O   *)
(* completion (a listing response, a raw-file response, a finished write)  *)
(* together with every continuation that runs before the next await on    *)
(* I/O.                                                                    *)
(***************************************************************************)
EXTENDS Integers, Sequences, FiniteSets, TLC

\* ------------------------------------------------------------------ bounds

\* Largest number of files in a remote directory without subdirectories.
MaxFiles == 6

\* Largest number of entries in a local tree the name walk is run on.
MaxEntries == 3

\* Largest number of files, over all its directories, in a remote tree that
\* has subdirectories.
MaxNestedFiles == 2

\* Largest number of packages in the sections of a manifest.
MaxPackages == 2

\* Largest number of files in a project the API key is put into.
MaxProjectFiles == 2

\* Largest length of an API key.
MaxKeyLen == 2

\* Largest length of an answer to the "Project name:" prompt.
MaxNameLen == 3

\* Largest number of templates getExampleFolders returns.
MaxExamples == 2

\* ------------------------------------------------------- program constants

\* const chunkSize = 5;
chunkSize == 5

\* const ROOT_EXAMPLES_DIR = "packages/sdks/snippets"; a path is the sequence
\* of its segments.
ROOT_EXAMPLES_DIR == <<"packages", "sdks", "snippets">>

\* The template being downloaded (downloadTemplate's `template`).
templateName == "tpl"

\* const templatePath = `${ROOT_EXAMPLES_DIR}/${template}`;
templatePath == ROOT_EXAMPLES_DIR \o <<templateName>>

\* ------------------------------------------------------------ small helpers

Min(a, b) == IF a < b THEN a ELSE b

Range(s) == {s[j] : j \in 1..Len(s)}

IsPrefix(p, s) == Len(p) <= Len(s) /\ SubSeq(s, 1, Len(p)) = p

RECURSIVE Flatten(_)
Flatten(ss) == IF ss = <<>> THEN <<>> ELSE Head(ss) \o Flatten(Tail(ss))

\* Array.from(new Set(...)): the first occurrence of each element, in order.
RECURSIVE Dedupe(_)
Dedupe(s) ==
  IF s = <<>> THEN <<>>
  ELSE LET r == Dedupe(SubSeq(s, 1, Len(s) - 1))
           x == s[Len(s)]
       IN IF x \in Range(r) THEN r ELSE Append(r, x)

\* String.prototype.replace(pattern, '') with a string pattern: the first
\* occurrence of pat in s is removed, wherever it is; s is returned as is
\* when pat does not occur.
RECURSIVE ReplaceFirst(_, _)
ReplaceFirst(s, pat) ==
  IF Len(s) < Len(pat) THEN s
  ELSE IF IsPrefix(pat, s) THEN SubSeq(s, Len(pat) + 1, Len(s))
  ELSE <<Head(s)>> \o ReplaceFirst(Tail(s), pat)

\* ------------------------------------------------------------- the remote

\* The names the modelled remote gives its files; the first one is the
\* manifest's, so that a root directory with a file has a package.json.
FileNameSeq == <<"package.json", "f2", "f3", "f4", "f5", "f6", "f7", "f8">>

\* The sets of directories present in a remote tree with subdirectories (a
\* directory only with its parent), relative to the template's directory.
DirShapes ==
  { {<<>>, <<"d1">>},
    {<<>>, <<"d1">>, <<"d2">>},
    {<<>>, <<"d1">>, <<"d1", "d2">>},
    {<<>>, <<"d1">>, <<"d2">>, <<"d1", "d2">>} }

RECURSIVE SumOver(_, _)
SumOver(f, S) ==
  IF S = {} THEN 0
  ELSE LET x == CHOOSE y \in S : TRUE IN f[x] + SumOver(f, S \ {x})

\* A remote tree: its directories and the number of files in each.
FlatTrees == { [dirs |-> {<<>>}, nf |-> (<<>> :> n)] : n \in 0..MaxFiles }

NestedTrees ==
  UNION { { [dirs |-> D, nf |-> n] :
              n \in {m \in [D -> 0..MaxNestedFiles] : SumOver(m, D) <= MaxNestedFiles} } :
          D \in DirShapes }

RemoteTrees == FlatTrees \cup NestedTrees

\* How the host renders a page (a remote's variant): one link per child ("plain"); every link
\* twice, as a row's link is rendered more than once ("dup"); or, on the
\* root page, with one more link to a file of a subdirectory, as a link in
\* rendered content of the page would be ("leak").
\* The order in which a page links the subdirectories of a directory.
DirNameSeq == <<"d1", "d2">>

Href(kind, path) == [kind |-> kind, path |-> path]

FileLinks(t, d) ==
  [j \in 1..t.nf[d] |-> Href("blob", templatePath \o d \o <<FileNameSeq[j]>>)]

DirLinks(t, d) ==
  LET present == SelectSeq(DirNameSeq, LAMBDA n : Append(d, n) \in t.dirs)
  IN [j \in 1..Len(present) |-> Href("tree", templatePath \o d \o <<present[j]>>)]

\* The page the host serves for directory d (relative) of tree t.
Page(t, d, variant) ==
  LET links == FileLinks(t, d) \o DirLinks(t, d)
      extra == IF variant = "leak" /\ d = <<>> /\ <<"d1">> \in t.dirs
               THEN <<Href("blob", templatePath \o <<"d1", FileNameSeq[1]>>)>>
               ELSE <<>>
  IN links \o extra \o (IF variant = "dup" THEN links ELSE <<>>)

\* What the listing endpoint serves, by the full path of the directory.
Markup(r) ==
  [p \in {templatePath \o d : d \in r.tree.dirs} |->
     Page(r.tree, SubSeq(p, Len(templatePath) + 1, Len(p)), r.variant)]

\* The remotes the model runs against. The variants are those of the trees
\* with subdirectories; the leak variant differs from the plain one only
\* where the tree has the file the extra link names.
Remotes ==
  { [tree |-> t, variant |-> "plain"] : t \in RemoteTrees }
  \cup { [tree |-> t, variant |-> "dup"] : t \in NestedTrees }
  \cup { [tree |-> t, variant |-> "leak"] : t \in {u \in NestedTrees : u.nf[<<"d1">>] > 0} }

\* ------------------------------------------------------ getFilesInDirectory

\* new RegExp(`href="/BuilderIO/builder/<kind>/main/${dirPath}/([^"]+)"`, 'g')
\* run over the page: the captured group of every link of that kind whose
\* path continues dirPath, in page order. The group is whatever follows
\* `${dirPath}/` up to the closing quote, path separators included.
RegexMatches(page, kind, dirPath) ==
  LET hits == SelectSeq(page, LAMBDA h : /\ h.kind = kind
                                         /\ IsPrefix(dirPath, h.path)
                                         /\ Len(h.path) > Len(dirPath))
  IN [j \in 1..Len(hits) |-> SubSeq(hits[j].path, Len(dirPath) + 1, Len(hits[j].path))]

\* The try branch: { files: Array.from(files), dirs: Array.from(dirs) }.
ParseListing(page, dirPath) ==
  [files |-> Dedupe(RegexMatches(page, "blob", dirPath)),
   dirs  |-> Dedupe(RegexMatches(page, "tree", dirPath))]

\* The catch branch of getFilesInDirectory: the error is printed and an empty
\* listing is returned to the caller.
ListingOnError == [files |-> <<>>, dirs |-> <<>>]

\* The markup served for a path; the host renders a page without links for a
\* path it does not have.
PageOf(h, dirPath) == IF dirPath \in DOMAIN h THEN h[dirPath] ELSE <<>>

\* getFilesInDirectory with a catch block that goes on with the page instead
\* of returning the empty listing.
getFilesInDirectoryIgnoringError(h, dirPath, requestOk) ==
  ParseListing(PageOf(h, dirPath), dirPath)

\* getFilesInDirectory(dirPath), by the outcome of its request.
getFilesInDirectory(h, dirPath, requestOk) ==
  IF requestOk THEN ParseListing(PageOf(h, dirPath), dirPath) ELSE ListingOnError

\* -------------------------------------------------------------------- state

VARIABLES
  remote,       \* the remote tree and how its pages are rendered (fixed during a run)
  inv,          \* the downloadDirectory invocations, by invocation id
  fetch,        \* the downloadFile calls, by <<invocation id, index in files>>
  progressBar,  \* the ProgressBar object: [curr, total]
  localFiles,   \* the files under targetDir, as paths relative to it
  log,          \* what was printed: console.error / utils.log records
  pcMain,       \* where downloadTemplate and its caller are
  downloaded,   \* downloadTemplate's downloadedFiles, once the mirror returned
  steps         \* the steps after the mirror that have run

vars == <<remote, inv, fetch, progressBar, localFiles, log, pcMain, downloaded, steps>>

VARIABLES
  tree,        \* the local tree below targetDir
  stack,       \* the active decodeFilePaths calls: [dir, items, i], innermost last
  walk,        \* [pc, pass, error]: where the walk is, which pass over the tree
               \* it is, and what was thrown
  start,       \* the tree the first pass started from
  afterFirst,  \* the tree the first pass left
  renamed,     \* the renames that went through: [pass, from, to]
  warned,      \* the renames that failed (utils.log.warn): [pass, path, kind]
  entered      \* the directories read (fs.readdir): [pass, path]

decodeVars == <<tree, stack, walk, start, afterFirst, renamed, warned, entered>>

VARIABLES
  args,        \* what the run was started with: [entry, version, apiKey]
  manifest,    \* the content of package.json in the project directory
  manifest0,   \* the manifest before updateWorkspaceVersions
  project,     \* the files getAllFiles finds in the project directory: [name, content]
  project0,    \* the files before updateApiKey
  nameQuestion, \* the "Project name:" prompt: [pc, input, result]
  templates    \* the template choice of main: [pc, examples, framework, gen, choices]

cliVars == <<args, manifest, manifest0, project, project0, nameQuestion, templates>>

allVars == <<vars, decodeVars, cliVars>>

\* An invocation of downloadDirectory is named by the listed names that led
\* to it from the root call: <<>> is downloadTemplate's call, Append(id, dir)
\* the call made for entry dir of the listing of invocation id.
RootId == <<>>

\* downloadDirectory's dirPath: `${dirPath}/${dir}` at every level.
DirPathOf(id) == templatePath \o Flatten(id)

\* const fullPath = `${dirPath}/${file}`;
FullPathOf(id, file) == DirPathOf(id) \o file

\* const relativePath = fullPath.replace(`${ROOT_EXAMPLES_DIR}/${templateName}/`, '');
\* const targetPath = path.join(targetDir, relativePath);
\* The target is kept relative to targetDir.
TargetPathOf(fullPath) == ReplaceFirst(fullPath, templatePath)

NoResult == [success |-> FALSE, path |-> <<>>]

\* downloadFile returning success once the request has the content, whatever
\* becomes of the write.
DownloadFileSuccessOnResponse(req, write) == req = "ok"

\* downloadFile's return value: { success: true, path } at the end of the try
\* block, { success: false, path } from the catch block.
DownloadFileSuccess(req, write) == req = "ok" /\ write = "ok"

\* The catch block of downloadFile without its test of the status.
DownloadFileLogsAlways(req, write) == ~(req = "ok" /\ write = "ok")

\* The catch block of downloadFile prints unless error.response?.status is
\* 404: a rejected request with another status or none, or a rejected write.
DownloadFileLogs(req, write) ==
  /\ ~(req = "ok" /\ write = "ok")
  /\ req # "notfound"

\* progressBar.total = files.length, in place of +=.
GrowTotalAssign(pb, n) == [curr |-> Min(pb.curr, n), total |-> n]

\* The total growing by the files of the first batch only.
GrowTotalByBatch(pb, n) ==
  LET t == pb.total + Min(n, chunkSize) IN [curr |-> Min(pb.curr, t), total |-> t]

\* progressBar.total += files.length;
\* progressBar.curr = Math.min(progressBar.curr, progressBar.total);
GrowTotal(pb, n) ==
  LET t == pb.total + n IN [curr |-> Min(pb.curr, t), total |-> t]

\* progressBar.tick({file: ...}): one step forward.
Tick(pb) == [pb EXCEPT !.curr = pb.curr + 1]

\* The bar ticked for every result, with the tick outside the test.
TickOnAnyResult(pb, result) == Tick(pb)

\* if (result.success) { ...; progressBar.tick({...}); }
TickOnResult(pb, result) == IF result.success THEN Tick(pb) ELSE pb

\* files.slice(0, -1).map(...): the map leaving the last file of the listing
\* out.
DispatchedAllButLast(n) == 1..(n - 1)

\* The fetches started by files.map(file => downloadFile(...)): the map calls
\* downloadFile for every file of the listing, and each call issues its
\* request before it first awaits.
Dispatched(n) == 1..n

\* A promise of downloadPromises that settles only when its download
\* succeeded.
SettledOnSuccess(f, id, k) == f[<<id, k>>].phase = "done" /\ f[<<id, k>>].result.success

\* The promise downloadFile(...).then(...) of file k has settled; it never
\* rejects, downloadFile returning from its catch block.
Settled(f, id, k) == f[<<id, k>>].phase = "done"

\* The await of a batch resolving with the first of its fetches, as
\* Promise.race would.
ChunkSettledRace(f, id, i, n) ==
  \E k \in (i + 1)..Min(i + chunkSize, n) : Settled(f, id, k)

\* await Promise.all(downloadPromises.slice(i, i + chunkSize)) has resolved.
ChunkSettled(f, id, i, n) ==
  \A k \in (i + 1)..Min(i + chunkSize, n) : Settled(f, id, k)

\* The batch loop without its await: it runs to its end at once.
NextChunkNoAwait(f, id, i, n) == n

\* for (let i = 0; i < downloadPromises.length; i += chunkSize): the value of
\* i at which the loop next waits, or at which it ends (i >= n).
RECURSIVE NextChunk(_, _, _, _)
NextChunk(f, id, i, n) ==
  IF i >= n THEN i
  ELSE IF ChunkSettled(f, id, i, n) THEN NextChunk(f, id, i + chunkSize, n)
  ELSE i

\* A call of downloadDirectory up to `await getFilesInDirectory(dirPath)`.
\* request records how the listing request ended.
NewInvocation ==
  [pc |-> "listing", request |-> "pending", files |-> <<>>, dirs |-> <<>>, i |-> 0,
   downloadedFiles |-> 0, result |-> 0]

ChildIds(iv, id) == {Append(id, iv[id].dirs[j]) : j \in 1..Len(iv[id].dirs)}

\* const dirPromises = dirs.map(dir => downloadDirectory(fullPath, ...)):
\* every call runs up to its listing request.
LaunchDirs(iv, id) ==
  [x \in DOMAIN iv \cup ChildIds(iv, id) |->
     IF x = id THEN [iv[id] EXCEPT !.pc = "dirs"]
     ELSE IF x \in DOMAIN iv THEN iv[x] ELSE NewInvocation]

\* dirResults.reduce((sum, result) => sum + result, 0)
RECURSIVE SumResults(_, _, _)
SumResults(iv, id, ds) ==
  IF ds = <<>> THEN 0
  ELSE iv[Append(id, Head(ds))].result + SumResults(iv, id, Tail(ds))

\* downloadDirectory returning its own count without the subdirectories'.
ReturnValueOwn(iv, id) == iv[id].downloadedFiles

\* downloadedFiles += dirResults.reduce(...); return downloadedFiles;
ReturnValue(iv, id) == iv[id].downloadedFiles + SumResults(iv, id, iv[id].dirs)

\* await Promise.all(dirPromises) resolves once every child call has
\* returned; the call then returns, which may in turn resolve its parent's.
RECURSIVE Return(_, _)
Return(iv, id) ==
  IF iv[id].pc = "dirs" /\ \A c \in ChildIds(iv, id) : iv[c].pc = "returned"
  THEN LET iv2 == [iv EXCEPT ![id].pc = "returned", ![id].result = ReturnValue(iv, id)]
       IN IF id = RootId THEN iv2 ELSE Return(iv2, SubSeq(id, 1, Len(id) - 1))
  ELSE iv

\* The continuation of invocation id after one of its awaits resolved: the
\* batch loop up to its next unresolved batch, then the subdirectory calls,
\* then the return.
Continue(iv, f, id) ==
  LET n  == Cardinality(Dispatched(Len(iv[id].files)))  \* downloadPromises.length
      i2 == NextChunk(f, id, iv[id].i, n)
      iv1 == [iv EXCEPT ![id].i = i2]
  IN IF i2 < n THEN iv1 ELSE Return(LaunchDirs(iv1, id), id)

\* --------------------------------------------------------- downloadTemplate

\* The empty-result test with a comparison that is never true of a count.
IsEmptyResultNever(count) == count < 0

\* if (downloadedFiles === 0) { utils.log.error(...); process.exit(1); }
IsEmptyResult(count) == count = 0

\* What downloadTemplate does when `await downloadDirectory(...)` resolves
\* with count: exit on an empty result, otherwise go on to decodeFilePaths
\* (which runs up to its first readdir).
AfterMirror(iv, lg) ==
  IF iv[RootId].pc # "returned"
  THEN /\ pcMain' = pcMain
       /\ downloaded' = downloaded
       /\ log' = lg
  ELSE /\ downloaded' = iv[RootId].result
       /\ IF IsEmptyResult(iv[RootId].result)
          THEN /\ log' = lg \cup {[level |-> "error", msg |-> "No files were downloaded", at |-> <<>>]}
               /\ pcMain' = "exited"
          ELSE /\ log' = lg
               /\ pcMain' = "decode"

\* ---------------------------------------------------- updateWorkspaceVersions

\* The packages a modelled manifest can depend on; the first MaxPackages of
\* them are used.
PackageSeq == <<"@builder.io/sdk", "lib", "tool">>

PackageSet == {PackageSeq[j] : j \in 1..MaxPackages}

\* A version string is the sequence of its parts; 'workspace:*' is one part.
WorkspaceMarker == "workspace:*"

VersionSet == { <<WorkspaceMarker>>, <<"^1.0.0">> }

\* version.includes('workspace:*')
Includes(version, part) == \E j \in 1..Len(version) : version[j] = part

\* A section of the manifest (dependencies, devDependencies): not there, or
\* an object from package names to version strings.
NoSection == [present |-> FALSE, entries |-> <<>>]

SectionSet ==
  {NoSection}
  \cup { [present |-> TRUE, entries |-> e] :
           e \in UNION { [S -> VersionSet] : S \in SUBSET PackageSet } }

\* The scripts section: not there, or the names of its scripts.
ScriptsSet ==
  { [present |-> FALSE, names |-> {}],
    [present |-> TRUE, names |-> {}],
    [present |-> TRUE, names |-> {"test"}],
    [present |-> TRUE, names |-> {"dev", "test"}] }

\* path.basename(projectDir)
projectName == "my-builder-project"

\* The manifests a mirrored project can have.
ManifestSet ==
  { [name |-> "snippet", dependencies |-> d, devDependencies |-> v, scripts |-> sc] :
      d \in SectionSet, v \in SectionSet, sc \in ScriptsSet }

\* const basicPackage = { name: path.basename(targetDir), version: '0.1.0',
\* private: true }: the manifest downloadTemplate writes when there is none.
basicPackage ==
  [name |-> projectName, dependencies |-> NoSection, devDependencies |-> NoSection,
   scripts |-> [present |-> FALSE, names |-> {}]]

\* The manifest of the template the mirror specification runs against.
RemoteManifest ==
  [name |-> "snippet",
   dependencies |-> [present |-> TRUE,
                     entries |-> (PackageSeq[1] :> <<WorkspaceMarker>>)],
   devDependencies |-> NoSection,
   scripts |-> [present |-> TRUE, names |-> {"dev", "test"}]]

\* const dependencies = { ...packageJson.dependencies, ...packageJson.devDependencies };
\* a package of both sections has the version devDependencies gives it.
MergedDependencies(m) ==
  LET d == m.dependencies.entries
      v == m.devDependencies.entries
  IN [pkg \in DOMAIN d \cup DOMAIN v |-> IF pkg \in DOMAIN v THEN v[pkg] ELSE d[pkg]]

\* The loop over Object.entries(dependencies): a package whose merged version
\* includes the marker gets providedVersion in every section that has a
\* (truthy, i.e. non-empty) entry for it.
RewriteSection(sec, merged, providedVersion) ==
  [sec EXCEPT !.entries =
     [pkg \in DOMAIN sec.entries |->
        IF Includes(merged[pkg], WorkspaceMarker) /\ sec.entries[pkg] # <<>>
        THEN providedVersion
        ELSE sec.entries[pkg]]]

\* updateWorkspaceVersions(projectDir, providedVersion) on a project whose
\* package.json holds m: what package.json holds afterwards and whether the
\* catch block printed its warning. `delete packageJson.scripts.test` throws
\* a TypeError when there is no scripts section, before fs.writeJson is
\* reached, so the file is left as it was.
updateWorkspaceVersions(m, providedVersion) ==
  LET merged == MergedDependencies(m)
      updated == [name |-> projectName,
                  dependencies |-> RewriteSection(m.dependencies, merged, providedVersion),
                  devDependencies |-> RewriteSection(m.devDependencies, merged, providedVersion),
                  scripts |-> [m.scripts EXCEPT !.names = m.scripts.names \ {"test"}]]
  IN IF m.scripts.present
     THEN [manifest |-> updated, warned |-> FALSE]
     ELSE [manifest |-> m, warned |-> TRUE]

\* The entry points: main asks for the version and generateTemplate takes an
\* options object. A version is <<>> when none is given.
EntrySet == {"main", "generateTemplate"}

\* The version updateWorkspaceVersions is called with. main passes the answer
\* to its prompt, which is the prompt's default 'latest' on empty input;
\* generateTemplate destructures { directory, apiKey, template, silent } and
\* calls updateWorkspaceVersions(projectDir), whose parameter then has its
\* default 'latest'.
ProvidedVersion(a) ==
  IF a.entry = "main" /\ a.version # <<>> THEN a.version ELSE <<"latest">>

\* ------------------------------------------------------------- updateApiKey

\* const defaultApiKey = 'ee9f13b4981e489a9a1209887695ef2b';
defaultApiKey == "ee9f13b4981e489a9a1209887695ef2b"

\* const textExtensions = [...]
textExtensions ==
  {".js", ".jsx", ".ts", ".tsx", ".svelte", ".vue", ".html", ".json", ".env", ".yml",
   ".yaml", ".md"}

\* A file name is the sequence of its parts, an extension being one part.
\* String.prototype.toLowerCase on the parts the model's names are made of.
ToLowerCase(part) ==
  CASE part = ".JSON" -> ".json"
    [] part = "README" -> "readme"
    [] OTHER -> part

\* file.toLowerCase().endsWith(ext)
EndsWith(name, ext) == Len(name) > 0 /\ ToLowerCase(name[Len(name)]) = ext

\* textExtensions.some(ext => file.toLowerCase().endsWith(ext))
IsTextFile(name) == \E ext \in textExtensions : EndsWith(name, ext)

\* The content of a file is the sequence of its pieces: the default key, a
\* cut-off default key, or other text.
\* content.includes(defaultApiKey)
HasDefaultKey(content) == \E j \in 1..Len(content) : content[j] = defaultApiKey

\* The replacement string of String.prototype.replace is a template: `$$`
\* stands for a dollar sign and `$&` for the matched text; every other
\* character stands for itself. A key is the sequence of its characters.
RECURSIVE ExpandReplacement(_, _)
ExpandReplacement(replacement, matched) ==
  IF replacement = <<>> THEN <<>>
  ELSE IF Len(replacement) >= 2 /\ replacement[1] = "$" /\ replacement[2] = "$"
  THEN <<"$">> \o ExpandReplacement(SubSeq(replacement, 3, Len(replacement)), matched)
  ELSE IF Len(replacement) >= 2 /\ replacement[1] = "$" /\ replacement[2] = "&"
  THEN <<matched>> \o ExpandReplacement(SubSeq(replacement, 3, Len(replacement)), matched)
  ELSE <<Head(replacement)>> \o ExpandReplacement(Tail(replacement), matched)

\* content.replace(new RegExp(defaultApiKey, 'g'), newApiKey)
RECURSIVE ReplaceAll(_, _)
ReplaceAll(content, newApiKey) ==
  IF content = <<>> THEN <<>>
  ELSE (IF Head(content) = defaultApiKey
        THEN ExpandReplacement(newApiKey, defaultApiKey)
        ELSE <<Head(content)>>)
       \o ReplaceAll(Tail(content), newApiKey)

\* The body of the loop over the files, for one file: what it holds
\* afterwards.
UpdateFile(file, newApiKey) ==
  IF IsTextFile(file.name) /\ HasDefaultKey(file.content)
  THEN [file EXCEPT !.content = ReplaceAll(file.content, newApiKey)]
  ELSE file

\* updateApiKey(projectDir, newApiKey) on the files of the project: nothing
\* when the key is falsy (undefined or the empty string).
updateApiKey(files, newApiKey) ==
  IF newApiKey = <<>> THEN files
  ELSE [j \in 1..Len(files) |-> UpdateFile(files[j], newApiKey)]

\* The names, contents and keys the update is run on.
FileNameSet == { <<"app", ".js">>, <<"DATA", ".JSON">>, <<"notes", ".txt">> }

ContentSet ==
  { <<"x">>, <<defaultApiKey>>, <<"x", defaultApiKey, defaultApiKey>>, <<"ee9f13b4">> }

FileSet == { [name |-> n, content |-> c] : n \in FileNameSet, c \in ContentSet }

ProjectSet(n) == UNION { [1..k -> FileSet] : k \in 0..n }

KeyCharSet == {"k", "$", "&"}

KeySet(n) == UNION { [1..k -> KeyCharSet] : k \in 0..n }

\* ------------------------------------------------------- the prompts of main

\* The characters an answer is typed from, with their code units.
CodeUnit ==
  ( "a" :> 97 @@ "Z" :> 90 @@ "7" :> 55 @@ "-" :> 45 @@ "_" :> 95 @@ "@" :> 64 @@
    "e'" :> 233 )

InputChars == DOMAIN CodeUnit

InputSet(n) == UNION { [1..k -> InputChars] : k \in 0..n }

\* The class with `9-_` read as the range from 9 to _.
InClassWithRange(c) ==
  \/ CodeUnit[c] \in 97..122
  \/ CodeUnit[c] \in 65..90
  \/ CodeUnit[c] \in 48..57
  \/ CodeUnit[c] \in 57..95

\* [a-zA-Z0-9-_]: the ranges a-z, A-Z and 0-9, the dash (which follows a
\* completed range and so stands for itself) and the underscore.
InClass(c) ==
  \/ CodeUnit[c] \in 97..122
  \/ CodeUnit[c] \in 65..90
  \/ CodeUnit[c] \in 48..57
  \/ CodeUnit[c] = 45
  \/ CodeUnit[c] = 95

\* /^[a-zA-Z0-9-_]+$/.test(input)
RegexTest(input) == Len(input) >= 1 /\ \A j \in 1..Len(input) : InClass(input[j])

\* validate: (input) => { ... } of the directory question: true, or the
\* message inquirer shows before it asks again.
validate(input) ==
  IF Len(input) = 0
  THEN [ok |-> FALSE, message |-> "Project name is required"]
  ELSE IF ~RegexTest(input)
  THEN [ok |-> FALSE,
        message |-> "Project name can only contain letters, numbers, dashes and underscores"]
  ELSE [ok |-> TRUE, message |-> ""]

\* A template name is the sequence of its characters.
Gen1Prefix == <<"g", "e", "n", "1", "-">>

W_react == <<"r", "e", "a", "c", "t">>

W_reactDash == <<"r", "e", "a", "c", "t", "-">>

W_reactNative == <<"r", "e", "a", "c", "t", "-", "n", "a", "t", "i", "v", "e">>

W_reactSdk == <<"r", "e", "a", "c", "t", "-", "s", "d", "k">>

W_angular == <<"a", "n", "g", "u", "l", "a", "r">>

W_solidjs == <<"s", "o", "l", "i", "d", "j", "s">>

W_hydrogen == <<"h", "y", "d", "r", "o", "g", "e", "n">>

W_next == <<"n", "e", "x", "t">>

W_vue == <<"v", "u", "e">>

W_nuxt == <<"n", "u", "x", "t">>

W_qwik == <<"q", "w", "i", "k">>

W_remix == <<"r", "e", "m", "i", "x">>

W_svelte == <<"s", "v", "e", "l", "t", "e">>

W_sveltekit == <<"s", "v", "e", "l", "t", "e", "k", "i", "t">>

\* templateName.startsWith(prefix)
StartsWith(name, prefix) == IsPrefix(prefix, name)

\* const frameworkPatterns = { ... }, in the order of its keys. A pattern
\* matches by startsWith, by === or, for React, by
\*   name === 'react' || name.startsWith('react-')
\*     && !name.startsWith('react-native') && !name.startsWith('react-sdk')
frameworkPatterns ==
  << [name |-> "Angular",   match |-> "startsWith", word |-> W_angular],
     [name |-> "SolidJS",   match |-> "startsWith", word |-> W_solidjs],
     [name |-> "React",     match |-> "react",      word |-> W_react],
     [name |-> "Hydrogen",  match |-> "startsWith", word |-> W_hydrogen],
     [name |-> "Next.js",   match |-> "startsWith", word |-> W_next],
     [name |-> "Vue",       match |-> "equals",     word |-> W_vue],
     [name |-> "Nuxt",      match |-> "startsWith", word |-> W_nuxt],
     [name |-> "Qwik",      match |-> "startsWith", word |-> W_qwik],
     [name |-> "Remix",     match |-> "startsWith", word |-> W_remix],
     [name |-> "Svelte",    match |-> "equals",     word |-> W_svelte],
     [name |-> "SvelteKit", match |-> "startsWith", word |-> W_sveltekit] >>

\* framework.match(templateName)
Matches(pattern, name) ==
  CASE pattern.match = "startsWith" -> StartsWith(name, pattern.word)
    [] pattern.match = "equals" -> name = pattern.word
    [] pattern.match = "react" ->
         \/ name = W_react
         \/ /\ StartsWith(name, W_reactDash)
            /\ ~StartsWith(name, W_reactNative)
            /\ ~StartsWith(name, W_reactSdk)

\* return null;
NoCategory == [matched |-> FALSE, framework |-> "", gen |-> ""]

Category(framework, gen) == [matched |-> TRUE, framework |-> framework, gen |-> gen]

\* utils.categorizeTemplate(templateName)
categorizeTemplate(example) ==
  LET isGen1 == StartsWith(example, Gen1Prefix)
      gen    == IF isGen1 THEN "Gen1" ELSE "Gen2"
      name   == IF isGen1 THEN ReplaceFirst(example, Gen1Prefix) ELSE example
      hits   == SelectSeq(frameworkPatterns, LAMBDA pattern : Matches(pattern, name))
  IN IF StartsWith(name, W_reactNative) THEN Category("React Native", gen)
     ELSE IF StartsWith(name, W_reactSdk) THEN Category("Next.js", gen)
     ELSE IF hits # <<>> THEN Category(hits[1].name, gen)
     ELSE NoCategory

\* utils.getTemplateUrl(templateName), as the path below GITHUB_HTML_URL.
getTemplateUrl(name) == <<ROOT_EXAMPLES_DIR, name>>

\* A filter on the framework alone.
filterTemplatesByFramework(examples, framework, gen) ==
  LET filteredExamples ==
        SelectSeq(examples, LAMBDA example :
          LET category == categorizeTemplate(example)
          IN category.matched /\ category.framework = framework)
  IN [exit |-> filteredExamples = <<>>,
      choices |-> [j \in 1..Len(filteredExamples) |->
                     [name |-> <<filteredExamples[j], getTemplateUrl(filteredExamples[j])>>,
                      value |-> filteredExamples[j]]]]

\* filterTemplates(examples, framework, gen): the choices, or the exit when
\* there is none.
filterTemplates(examples, framework, gen) ==
  LET filteredExamples ==
        SelectSeq(examples, LAMBDA example :
          LET category == categorizeTemplate(example)
          IN category.matched /\ category.framework = framework /\ category.gen = gen)
  IN [exit |-> filteredExamples = <<>>,
      choices |-> [j \in 1..Len(filteredExamples) |->
                     [name |-> <<filteredExamples[j], getTemplateUrl(filteredExamples[j])>>,
                      value |-> filteredExamples[j]]]]

\* choices: [...] of the framework question (Vue is there twice) and of the
\* generation question.
frameworkChoices ==
  {"React", "Next.js", "Vue", "Svelte", "Angular", "Nuxt", "Qwik", "Remix", "SolidJS",
   "SvelteKit", "React Native"}

genChoices == {"Gen1", "Gen2"}

\* The directory names the examples are drawn from.
TemplateNameSet ==
  { W_react,
    W_reactNative,
    W_reactSdk \o <<"-">> \o W_next,
    Gen1Prefix \o W_react,
    Gen1Prefix \o W_reactNative,
    Gen1Prefix \o Gen1Prefix \o W_react,
    W_react \o <<"i", "v", "e">>,
    W_next \o <<"j", "s">>,
    W_vue,
    W_vue \o <<"x">>,
    W_svelte,
    W_sveltekit }

\* Array.from(examples) of getExampleFolders: distinct names, in page order.
ExampleSeqs(n) ==
  UNION { { e \in [1..k -> TemplateNameSet] :
              \A a, b \in 1..k : a # b => e[a] # e[b] } : k \in 0..n }

NotAsked == [pc |-> "idle", input |-> <<>>, result |-> [ok |-> FALSE, message |-> ""]]

NoTemplates ==
  [pc |-> "idle", examples |-> <<>>, framework |-> "React", gen |-> "Gen2",
   choices |-> <<>>]

\* What the mirror specification is started with, and the state of the
\* project's files it does not look into.
CliInit ==
  /\ args = [entry |-> "main", version |-> <<>>, apiKey |-> <<>>]
  /\ manifest = RemoteManifest
  /\ manifest0 = RemoteManifest
  /\ project = <<>>
  /\ project0 = <<>>
  /\ nameQuestion = [NotAsked EXCEPT !.pc = "answered", !.input = <<"a">>,
                                     !.result = [ok |-> TRUE, message |-> ""]]
  /\ templates = NoTemplates

\* The state after construction: downloadTemplate has made the progress bar
\* (total: 0) and called downloadDirectory(templatePath, ...), whose listing
\* request is in flight.
Init ==
  /\ remote \in Remotes
  /\ inv = (RootId :> NewInvocation)
  /\ fetch = <<>>
  /\ progressBar = [curr |-> 0, total |-> 0]
  /\ localFiles = {}
  /\ log = {}
  /\ pcMain = "mirror"
  /\ downloaded = 0
  /\ steps = {}
  /\ tree = <<>> /\ start = <<>> /\ afterFirst = <<>>
  /\ stack = <<>>
  /\ walk = [pc |-> "idle", pass |-> 1, error |-> "none"]
  /\ renamed = {} /\ warned = {} /\ entered = {}
  /\ CliInit

\* The listing request of invocation id completes (requestOk) or is rejected:
\* downloadDirectory goes on from `await getFilesInDirectory(dirPath)`.
ListingResponse(id, requestOk) ==
  /\ pcMain = "mirror"
  /\ id \in DOMAIN inv
  /\ inv[id].pc = "listing"
  /\ \E lst \in {getFilesInDirectory(Markup(remote), DirPathOf(id), requestOk)} :
     \E n \in {Len(lst.files)} :
     \E f2 \in {[x \in DOMAIN fetch \cup {<<id, k>> : k \in Dispatched(n)} |->
                   IF x \in DOMAIN fetch THEN fetch[x]
                   ELSE [phase |-> "request", req |-> "pending", write |-> "none",
                         result |-> NoResult]]} :
     \E iv1 \in {[inv EXCEPT ![id].pc = "chunks",
                              ![id].request = IF requestOk THEN "ok" ELSE "failed",
                              ![id].files = lst.files,
                              ![id].dirs = lst.dirs, ![id].i = 0]} :
     \E iv2 \in {Continue(iv1, f2, id)} :
     \E lg \in {IF requestOk THEN log
                 ELSE log \cup {[level |-> "error", msg |-> "Error fetching directory contents",
                                 at |-> id]}} :
        /\ fetch' = f2
        /\ inv' = iv2
        /\ progressBar' = GrowTotal(progressBar, n)
        /\ AfterMirror(iv2, lg)
  /\ UNCHANGED <<remote, localFiles, steps, decodeVars, cliVars>>

\* downloadFile(fullPath, targetPath) settles for fetch <<id, k>> with the
\* given outcomes of its request and of its write, and the .then callback of
\* downloadDirectory runs on its result:
\*   if (result.success) { downloadedFiles++; progressBar.tick({...}); }
\* followed by whatever of the invocation was waiting for it.
Settle(id, k, req, write) ==
  \E fullPath \in {FullPathOf(id, inv[id].files[k])} :
  \E result \in {[success |-> DownloadFileSuccess(req, write), path |-> fullPath]} :
  \E f2 \in {[fetch EXCEPT ![<<id, k>>] =
                [phase |-> "done", req |-> req, write |-> write, result |-> result]]} :
  \E iv1 \in {IF result.success
               THEN [inv EXCEPT ![id].downloadedFiles = inv[id].downloadedFiles + 1]
               ELSE inv} :
  \E iv2 \in {Continue(iv1, f2, id)} :
  \E lg \in {IF DownloadFileLogs(req, write)
              THEN log \cup {[level |-> "error", msg |-> "Error downloading", at |-> <<id, k>>]}
              ELSE log} :
     /\ fetch' = f2
     /\ inv' = iv2
     /\ progressBar' = TickOnResult(progressBar, result)
     /\ AfterMirror(iv2, lg)

\* The raw-file request of fetch <<id, k>> completes: with the content
\* ("ok": downloadFile goes on to fs.outputFile), with status 404
\* ("notfound") or with another failure ("error").
FetchResponse(id, k, outcome) ==
  /\ pcMain = "mirror"
  /\ <<id, k>> \in DOMAIN fetch
  /\ fetch[<<id, k>>].phase = "request"
  /\ IF outcome = "ok"
     THEN /\ fetch' = [fetch EXCEPT ![<<id, k>>].phase = "write",
                                    ![<<id, k>>].req = "ok",
                                    ![<<id, k>>].write = "pending"]
          /\ UNCHANGED <<inv, progressBar, log, pcMain, downloaded>>
     ELSE Settle(id, k, outcome, "none")
  /\ UNCHANGED <<remote, localFiles, steps, decodeVars, cliVars>>

\* fs.outputFile(targetPath, response.data) of fetch <<id, k>> completes:
\* the file is there (writeOk), or creating the directories or writing
\* failed.
WriteDone(id, k, writeOk) ==
  /\ pcMain = "mirror"
  /\ <<id, k>> \in DOMAIN fetch
  /\ fetch[<<id, k>>].phase = "write"
  /\ localFiles' = IF writeOk
                   THEN localFiles \cup {TargetPathOf(FullPathOf(id, inv[id].files[k]))}
                   ELSE localFiles
  /\ Settle(id, k, "ok", IF writeOk THEN "ok" ELSE "fail")
  /\ UNCHANGED <<remote, steps, decodeVars, cliVars>>

\* ---------------------------------------------- the steps after the mirror

\* decodeFilePaths(targetDir) completes, or throws (a readdir that fails, a
\* name decodeURIComponent rejects): the catch block of downloadTemplate
\* prints the error and exits. The names of this specification's remote
\* carry no percent escapes, so the walk renames nothing here.
DecodeDone(ok) ==
  /\ pcMain = "decode"
  /\ steps' = steps \cup {"decode"}
  /\ IF ok
     THEN /\ pcMain' = "package"
          /\ log' = log
     ELSE /\ pcMain' = "exited"
          /\ log' = log \cup {[level |-> "error", msg |-> "Error downloading template", at |-> <<>>]}
  /\ UNCHANGED <<remote, inv, fetch, progressBar, localFiles, downloaded, decodeVars, cliVars>>

\* if (!await fs.pathExists(packagePath)) await fs.writeJSON(packagePath, ...);
\* utils.log.success(`Template files downloaded successfully! ...`);
\* downloadTemplate returns and its caller goes on to updateWorkspaceVersions.
EnsurePackage ==
  /\ pcMain = "package"
  /\ localFiles' = localFiles \cup {<<"package.json">>}
  /\ steps' = steps \cup (IF <<"package.json">> \in localFiles THEN {} ELSE {"package"})
                    \cup {"report"}
  /\ log' = log \cup {[level |-> "success", msg |-> "Template files downloaded successfully",
                       at |-> <<>>]}
  /\ pcMain' = "versions"
  /\ manifest' = IF <<"package.json">> \in localFiles THEN manifest ELSE basicPackage
  /\ UNCHANGED <<remote, inv, fetch, progressBar, downloaded, decodeVars, args, manifest0,
                 project, project0, nameQuestion, templates>>

\* await updateWorkspaceVersions(projectDir, version) in main,
\* await updateWorkspaceVersions(projectDir) in generateTemplate.
UpdateVersions ==
  /\ pcMain = "versions"
  /\ LET r == updateWorkspaceVersions(manifest, ProvidedVersion(args)) IN
     /\ manifest' = r.manifest
     /\ log' = IF r.warned
               THEN log \cup {[level |-> "warn", msg |-> "Error updating workspace versions",
                                at |-> <<>>]}
               ELSE log
  /\ manifest0' = manifest
  /\ steps' = steps \cup {"versions"}
  /\ pcMain' = "apikey"
  /\ UNCHANGED <<remote, inv, fetch, progressBar, localFiles, downloaded, decodeVars, args,
                 project, project0, nameQuestion, templates>>

\* await updateApiKey(projectDir, apiKey); then the caller's own report.
UpdateApiKey ==
  /\ pcMain = "apikey"
  /\ project' = updateApiKey(project, args.apiKey)
  /\ project0' = project
  /\ log' = IF args.apiKey = <<>>
            THEN log \cup {[level |-> "warn", msg |-> "No API key provided", at |-> <<>>]}
            ELSE log
  /\ steps' = steps \cup {"apikey", "created"}
  /\ pcMain' = "done"
  /\ UNCHANGED <<remote, inv, fetch, progressBar, localFiles, downloaded, decodeVars, args,
                 manifest, manifest0, nameQuestion, templates>>

\* The mirror and the steps after it; the name walk is specified on its own
\* (SpecDecode).
Next ==
  \/ \E id \in DOMAIN inv, ok \in BOOLEAN : ListingResponse(id, ok)
  \/ \E x \in DOMAIN fetch, o \in {"ok", "notfound", "error"} : FetchResponse(x[1], x[2], o)
  \/ \E x \in DOMAIN fetch, ok \in BOOLEAN : WriteDone(x[1], x[2], ok)
  \/ \E ok \in BOOLEAN : DecodeDone(ok)
  \/ EnsurePackage
  \/ UpdateVersions
  \/ UpdateApiKey

Spec == Init /\ [][Next]_allVars

\* Every request that is in flight is answered in the end, by a response or
\* by a rejection: the listing requests (axios.get in getFilesInDirectory),
\* the raw-file requests (axios.get in downloadFile) and the writes
\* (fs.outputFile). The code sets no timeout on any of them, so this is an
\* assumption about the network and the file system, under which the
\* event loop runs the continuation of each as part of the same step.
EveryRequestCompletes ==
  /\ WF_allVars(\E id \in DOMAIN inv, ok \in BOOLEAN : ListingResponse(id, ok))
  /\ WF_allVars(\E x \in DOMAIN fetch, o \in {"ok", "notfound", "error"} :
                  FetchResponse(x[1], x[2], o))
  /\ WF_allVars(\E x \in DOMAIN fetch, ok \in BOOLEAN : WriteDone(x[1], x[2], ok))

\* The remotes termination is checked against: the trees with
\* subdirectories, and the flat ones of up to one file more than a batch, the
\* last of which takes the batch loop through a second await.
LiveRemotes ==
  {r \in Remotes : r.tree \in NestedTrees \/ r.tree.nf[<<>>] <= chunkSize + 1}

InitLive == Init /\ remote \in LiveRemotes

\* The mirror and the steps after it, with every request answered.
SpecLive == InitLive /\ [][Next]_allVars /\ EveryRequestCompletes

\* ---------------------------------------------------------- decodeFilePaths

\* A name of a local entry is the sequence of its characters.
\* The value of a hexadecimal digit.
HexValue ==
  ( "0" :> 0 @@ "1" :> 1 @@ "2" :> 2 @@ "3" :> 3 @@ "4" :> 4 @@ "5" :> 5 @@
    "6" :> 6 @@ "7" :> 7 @@ "8" :> 8 @@ "9" :> 9 @@
    "a" :> 10 @@ "b" :> 11 @@ "c" :> 12 @@ "d" :> 13 @@ "e" :> 14 @@ "f" :> 15 @@
    "A" :> 10 @@ "B" :> 11 @@ "C" :> 12 @@ "D" :> 13 @@ "E" :> 14 @@ "F" :> 15 )

\* The character of a one-byte (ASCII) code, for the codes two digits out of
\* 0, 2, 5 and a can spell.
AsciiChar ==
  ( 0 :> "NUL" @@ 2 :> "STX" @@ 5 :> "ENQ" @@ 10 :> "LF" @@ 32 :> " " @@
    34 :> "QUOTE" @@ 37 :> "%" @@ 42 :> "*" @@ 80 :> "P" @@ 82 :> "R" @@
    85 :> "U" @@ 90 :> "Z" )

DecodeError == [ok |-> FALSE, value |-> <<>>]

\* decodeURIComponent(name): every %XX is replaced by the character it
\* encodes; a % that is not followed by two hexadecimal digits, or whose byte
\* does not start a valid UTF-8 sequence, raises URIError. Only one-byte
\* sequences are modelled: a byte of 0x80 and above is a lone continuation or
\* an unfinished lead byte in every name of the model.
RECURSIVE decodeURIComponent(_)

\* A decoding that replaces the first escape only and leaves the rest of the
\* name as it is.
decodeFirstEscapeOnly(name) ==
  IF "%" \notin Range(name) THEN [ok |-> TRUE, value |-> name]
  ELSE LET i == CHOOSE j \in 1..Len(name) :
                  name[j] = "%" /\ \A k \in 1..(j - 1) : name[k] # "%"
       IN IF \/ Len(name) < i + 2
             \/ name[i + 1] \notin DOMAIN HexValue
             \/ name[i + 2] \notin DOMAIN HexValue
             \/ 16 * HexValue[name[i + 1]] + HexValue[name[i + 2]] \notin DOMAIN AsciiChar
          THEN DecodeError
          ELSE [ok |-> TRUE,
                value |-> SubSeq(name, 1, i - 1)
                          \o <<AsciiChar[16 * HexValue[name[i + 1]] + HexValue[name[i + 2]]]>>
                          \o SubSeq(name, i + 3, Len(name))]

decodeURIComponent(name) ==
  IF name = <<>> THEN [ok |-> TRUE, value |-> <<>>]
  ELSE IF Head(name) # "%"
  THEN LET rest == decodeURIComponent(Tail(name))
       IN IF rest.ok THEN [ok |-> TRUE, value |-> <<Head(name)>> \o rest.value]
          ELSE DecodeError
  ELSE IF Len(name) < 3 \/ name[2] \notin DOMAIN HexValue \/ name[3] \notin DOMAIN HexValue
  THEN DecodeError
  ELSE LET byte == 16 * HexValue[name[2]] + HexValue[name[3]]
           rest == decodeURIComponent(SubSeq(name, 4, Len(name)))
       IN IF byte \in DOMAIN AsciiChar /\ rest.ok
          THEN [ok |-> TRUE, value |-> <<AsciiChar[byte]>> \o rest.value]
          ELSE DecodeError

\* The local tree is a function from the paths of its entries (below the
\* directory the walk starts at, which is <<>>) to "file" or "dir".
IsDir(f, path) == path = <<>> \/ (path \in DOMAIN f /\ f[path] = "dir")

EntriesOf(f, dir) == {q \in DOMAIN f : Len(q) = Len(dir) + 1 /\ IsPrefix(dir, q)}

Below(f, path) == {q \in DOMAIN f : IsPrefix(path, q)}

\* Whether the file system lets rename(from, to) through: the source is
\* there, the target's parent is, and an existing target is replaced only by
\* an entry of its kind, a directory only when it is empty.
RenameAllowed(f, from, to) ==
  /\ from \in DOMAIN f
  /\ IsDir(f, SubSeq(to, 1, Len(to) - 1))
  /\ to \in DOMAIN f =>
       /\ f[to] = f[from]
       /\ f[to] = "dir" => EntriesOf(f, to) = {}

\* The tree after fs.rename(from, to) went through: the entry and everything
\* below it is at the new path, in place of what was there.
RenameTo(f, from, to) ==
  LET moved == Below(f, from)
      kept  == (DOMAIN f \ moved) \ {to}
      dest(q) == to \o SubSeq(q, Len(from) + 1, Len(q))
  IN [q \in kept \cup {dest(m) : m \in moved} |->
        IF \E m \in moved : dest(m) = q
        THEN f[CHOOSE m \in moved : dest(m) = q]
        ELSE f[q]]

\* The names the modelled local trees are made of: plain, a space, the
\* encoded space, the encoded encoded space, a lone percent sign and two
\* encoded spaces.
NameSet ==
  { <<"a">>, <<" ">>, <<"%", "2", "0">>, <<"%", "2", "5", "2", "0">>, <<"%">>,
    <<"%", "2", "0", "%", "2", "0">> }

\* The names of the entries of a subdirectory.
ChildNameSet == { <<"a">>, <<"%", "2", "0">>, <<"%", "2", "5", "2", "0">> }

LocalPaths == {<<n>> : n \in NameSet} \cup {<<n, c>> : n \in NameSet, c \in ChildNameSet}

\* The local trees of at most n entries: what can be below targetDir when
\* the walk starts (an entry for every listed name, with the directories on
\* its way).
LocalPathSets(n) ==
  { P \in UNION { {Range(f) : f \in [1..k -> LocalPaths]} : k \in 0..n } :
      \A q \in P : Len(q) = 2 => SubSeq(q, 1, 1) \in P }

LocalTrees(n) ==
  UNION { { t \in [P -> {"file", "dir"}] :
              \A q \in P : (\E c \in P : c # q /\ IsPrefix(q, c)) => t[q] = "dir" } :
          P \in LocalPathSets(n) }

\* The orders in which fs.readdir can return the entries of a directory (the
\* order is the file system's), as Dirents: name and kind.
Readdir(f, dir) ==
  LET es == EntriesOf(f, dir)
      n  == Cardinality(es)
  IN { [j \in 1..n |-> [name |-> o[j][Len(dir) + 1], kind |-> f[o[j]]]] :
         o \in {g \in [1..n -> es] : \A a, b \in 1..n : a # b => g[a] # g[b]} }

\* const decodedPath = path.join(directory, decodedName), and the path that
\* decodeFilePaths is called with for a directory item.
DecodedPath(directory, itemName, decodedName) == Append(directory, decodedName)

\* const currentPath = path.join(directory, item.name);
CurrentPath(directory, itemName) == Append(directory, itemName)

\* The calls that have run off the end of their loop return, and the call
\* that awaited each goes on to its next item.
RECURSIVE Unwind(_)
Unwind(st) ==
  IF st = <<>> THEN st
  ELSE LET top == st[Len(st)] IN
       IF top.i <= Len(top.items) THEN st
       ELSE LET rest == SubSeq(st, 1, Len(st) - 1) IN
            IF rest = <<>> THEN rest
            ELSE Unwind([rest EXCEPT ![Len(rest)].i = rest[Len(rest)].i + 1])

WalkFinished(st, pass) ==
  /\ walk' = [pc |-> IF st = <<>> THEN "done" ELSE "walking", pass |-> pass,
               error |-> "none"]
  /\ stack' = st
  /\ afterFirst' = IF st = <<>> /\ pass = 1 THEN tree' ELSE afterFirst

\* decodeFilePaths(targetDir) is called: for the first time, or once more on
\* the tree a completed pass left. It reads the directory.
StartWalk ==
  /\ \/ walk.pc = "idle"
     \/ walk.pc = "done" /\ walk.pass = 1
  /\ LET pass == IF walk.pc = "idle" THEN 1 ELSE 2 IN
     \E items \in Readdir(tree, <<>>) :
       /\ tree' = tree
       /\ entered' = entered \cup {[pass |-> pass, path |-> <<>>]}
       /\ WalkFinished(Unwind(<<[dir |-> <<>>, items |-> items, i |-> 1]>>), pass)
  /\ UNCHANGED <<start, renamed, warned, vars, cliVars>>

\* One turn of the loop of the innermost call: the item's name is decoded,
\* the entry renamed if the name differs (renameOk: nothing outside the tree
\* makes the rename fail), and a directory item is walked: the call for it
\* reads its directory, which throws if there is no directory at that path.
\* An exception leaves every call (none catches it).
DecodeItem(renameOk) ==
  /\ walk.pc = "walking"
  /\ LET top == stack[Len(stack)]
         item == top.items[top.i]
         decoded == decodeURIComponent(item.name)
         currentPath == CurrentPath(top.dir, item.name)
     IN
     IF ~decoded.ok
     THEN /\ walk' = [walk EXCEPT !.pc = "threw", !.error = "URIError"]
          /\ UNCHANGED <<tree, stack, afterFirst, renamed, warned, entered>>
     ELSE
       LET decodedPath == DecodedPath(top.dir, item.name, decoded.value)
           differs == item.name # decoded.value
           goes == differs /\ renameOk /\ RenameAllowed(tree, currentPath, decodedPath)
           tree2 == IF goes THEN RenameTo(tree, currentPath, decodedPath) ELSE tree
           childDir == DecodedPath(top.dir, item.name, decoded.value)
       IN
       /\ differs \/ renameOk
       /\ tree' = tree2
       /\ renamed' = IF goes
                     THEN renamed \cup {[pass |-> walk.pass, from |-> currentPath, to |-> decodedPath]}
                     ELSE renamed
       /\ warned' = IF differs /\ ~goes
                    THEN warned \cup {[pass |-> walk.pass, path |-> currentPath, kind |-> item.kind]}
                    ELSE warned
       /\ IF item.kind # "dir"
          THEN /\ entered' = entered
               /\ WalkFinished(Unwind([stack EXCEPT ![Len(stack)].i = top.i + 1]), walk.pass)
          ELSE IF ~IsDir(tree2, childDir)
          THEN /\ walk' = [walk EXCEPT !.pc = "threw", !.error = "ENOENT"]
               /\ UNCHANGED <<stack, afterFirst, entered>>
          ELSE \E items \in Readdir(tree2, childDir) :
                 /\ entered' = entered \cup {[pass |-> walk.pass, path |-> childDir]}
                 /\ WalkFinished(
                      Unwind(Append(stack, [dir |-> childDir, items |-> items, i |-> 1])),
                      walk.pass)
  /\ UNCHANGED <<start, vars, cliVars>>

\* decodeFilePaths on its own, over every local tree of the bound.
InitDecode ==
  /\ tree \in LocalTrees(MaxEntries)
  /\ start = tree
  /\ afterFirst = <<>>
  /\ stack = <<>>
  /\ walk = [pc |-> "idle", pass |-> 1, error |-> "none"]
  /\ renamed = {} /\ warned = {} /\ entered = {}
  /\ remote = [tree |-> [dirs |-> {<<>>}, nf |-> (<<>> :> 0)], variant |-> "plain"]
  /\ inv = (RootId :> [NewInvocation EXCEPT !.pc = "returned", !.request = "ok"])
  /\ fetch = <<>>
  /\ progressBar = [curr |-> 0, total |-> 0]
  /\ localFiles = {}
  /\ log = {}
  /\ pcMain = "decode"
  /\ downloaded = 0
  /\ steps = {}
  /\ CliInit

NextDecode ==
  \/ StartWalk
  \/ \E renameOk \in BOOLEAN : DecodeItem(renameOk)

SpecDecode == InitDecode /\ [][NextDecode]_allVars

\* ------------------------------------------------- the post-processing alone

\* The state downloadTemplate leaves when it returns: a template of one file,
\* its manifest, has been mirrored, the name walk has run and the success
\* line is printed.
AfterDownloadTemplate ==
  /\ remote = [tree |-> [dirs |-> {<<>>}, nf |-> (<<>> :> 1)], variant |-> "plain"]
  /\ inv = (RootId :> [pc |-> "returned", request |-> "ok",
                       files |-> << <<FileNameSeq[1]>> >>, dirs |-> <<>>, i |-> chunkSize,
                       downloadedFiles |-> 1, result |-> 1])
  /\ fetch = (<<RootId, 1>> :>
                [phase |-> "done", req |-> "ok", write |-> "ok",
                 result |-> [success |-> TRUE, path |-> templatePath \o <<FileNameSeq[1]>>]])
  /\ progressBar = [curr |-> 1, total |-> 1]
  /\ localFiles = {<<FileNameSeq[1]>>}
  /\ log = {[level |-> "success", msg |-> "Template files downloaded successfully",
             at |-> <<>>]}
  /\ downloaded = 1
  /\ tree = <<>> /\ start = <<>> /\ afterFirst = <<>>
  /\ stack = <<>>
  /\ walk = [pc |-> "idle", pass |-> 1, error |-> "none"]
  /\ renamed = {} /\ warned = {} /\ entered = {}

\* The versions a caller gives: none, or one of its own.
VersionArgSet == { <<>>, <<"2.0.0">> }

\* updateWorkspaceVersions and updateApiKey after downloadTemplate, from
\* either entry point, over the manifests of the bound.
InitPost ==
  /\ AfterDownloadTemplate
  /\ pcMain = "versions"
  /\ steps = {"decode", "report"}
  /\ args \in { [entry |-> e, version |-> v, apiKey |-> k] :
                  e \in EntrySet, v \in VersionArgSet, k \in {<<>>, <<"k">>} }
  /\ manifest \in ManifestSet
  /\ manifest0 = manifest
  /\ project = << [name |-> <<"app", ".js">>, content |-> <<defaultApiKey>>] >>
  /\ project0 = project
  /\ nameQuestion = [NotAsked EXCEPT !.pc = "answered", !.input = <<"a">>,
                                     !.result = [ok |-> TRUE, message |-> ""]]
  /\ templates = NoTemplates

NextPost ==
  \/ UpdateVersions
  \/ UpdateApiKey

SpecPost == InitPost /\ [][NextPost]_allVars

\* updateApiKey on its own, over the projects and the keys of the bounds.
InitApiKey ==
  /\ AfterDownloadTemplate
  /\ pcMain = "apikey"
  /\ steps = {"decode", "report", "versions"}
  /\ args \in { [entry |-> "main", version |-> <<>>, apiKey |-> k] : k \in KeySet(MaxKeyLen) }
  /\ manifest = [RemoteManifest EXCEPT !.name = projectName]
  /\ manifest0 = RemoteManifest
  /\ project \in ProjectSet(MaxProjectFiles)
  /\ project0 = project
  /\ nameQuestion = [NotAsked EXCEPT !.pc = "answered", !.input = <<"a">>,
                                     !.result = [ok |-> TRUE, message |-> ""]]
  /\ templates = NoTemplates

NextApiKey == UpdateApiKey

SpecApiKey == InitApiKey /\ [][NextApiKey]_allVars

\* ------------------------------------------------------ the prompts alone

\* main before downloadTemplate is called: nothing is mirrored yet.
BeforeDownload ==
  /\ remote = [tree |-> [dirs |-> {<<>>}, nf |-> (<<>> :> 1)], variant |-> "plain"]
  /\ inv = <<>>
  /\ fetch = <<>>
  /\ progressBar = [curr |-> 0, total |-> 0]
  /\ localFiles = {}
  /\ log = {}
  /\ pcMain = "prompt"
  /\ downloaded = 0
  /\ steps = {}
  /\ tree = <<>> /\ start = <<>> /\ afterFirst = <<>>
  /\ stack = <<>>
  /\ walk = [pc |-> "idle", pass |-> 1, error |-> "none"]
  /\ renamed = {} /\ warned = {} /\ entered = {}
  /\ args = [entry |-> "main", version |-> <<>>, apiKey |-> <<>>]
  /\ manifest = RemoteManifest
  /\ manifest0 = RemoteManifest
  /\ project = <<>>
  /\ project0 = <<>>

\* An answer to "Project name:" is entered: inquirer calls validate on it
\* and asks again unless the result is true.
ValidateDirectory(input) ==
  /\ pcMain = "prompt"
  /\ nameQuestion.pc = "asking"
  /\ LET result == validate(input) IN
     nameQuestion' = [pc |-> IF result.ok THEN "answered" ELSE "asking",
                      input |-> input, result |-> result]
  /\ UNCHANGED <<vars, decodeVars, args, manifest, manifest0, project, project0, templates>>

InitName ==
  /\ BeforeDownload
  /\ nameQuestion = [NotAsked EXCEPT !.pc = "asking"]
  /\ templates = NoTemplates

NextName == \E input \in InputSet(MaxNameLen) : ValidateDirectory(input)

SpecName == InitName /\ [][NextName]_allVars

\* if (!examples || examples.length === 0) { utils.log.error(...); process.exit(1); }
CheckExamples ==
  /\ pcMain = "prompt"
  /\ templates.pc = "fetched"
  /\ IF Len(templates.examples) = 0
     THEN /\ templates' = [templates EXCEPT !.pc = "exited"]
          /\ log' = log \cup {[level |-> "error", msg |-> "No templates found in the examples directory",
                               at |-> <<>>]}
          /\ pcMain' = "exited"
     ELSE /\ templates' = [templates EXCEPT !.pc = "filter"]
          /\ UNCHANGED <<log, pcMain>>
  /\ UNCHANGED <<remote, inv, fetch, progressBar, localFiles, downloaded, steps, decodeVars,
                 args, manifest, manifest0, project, project0, nameQuestion>>

\* choices: filterTemplates(examples, framework, gen) of the template
\* question.
FilterTemplates ==
  /\ pcMain = "prompt"
  /\ templates.pc = "filter"
  /\ LET r == filterTemplates(templates.examples, templates.framework, templates.gen) IN
     IF r.exit
     THEN /\ templates' = [templates EXCEPT !.pc = "exited"]
          /\ log' = log \cup {[level |-> "error", msg |-> "No templates found for",
                               at |-> <<templates.framework, templates.gen>>]}
          /\ pcMain' = "exited"
     ELSE /\ templates' = [templates EXCEPT !.pc = "choices", !.choices = r.choices]
          /\ UNCHANGED <<log, pcMain>>
  /\ UNCHANGED <<remote, inv, fetch, progressBar, localFiles, downloaded, steps, decodeVars,
                 args, manifest, manifest0, project, project0, nameQuestion>>

\* The first prompt is answered and getExampleFolders has returned.
InitTemplates ==
  /\ BeforeDownload
  /\ nameQuestion = [NotAsked EXCEPT !.pc = "answered", !.input = <<"a">>,
                                     !.result = [ok |-> TRUE, message |-> ""]]
  /\ templates \in { [pc |-> "fetched", examples |-> e, framework |-> f, gen |-> g,
                      choices |-> <<>>] :
                       e \in ExampleSeqs(MaxExamples), f \in frameworkChoices, g \in genChoices }

NextTemplates ==
  \/ CheckExamples
  \/ FilterTemplates

SpecTemplates == InitTemplates /\ [][NextTemplates]_allVars

\* ------------------------------------------------------------------ claims

InFlight(id) ==
  Cardinality({x \in DOMAIN fetch : x[1] = id /\ fetch[x].phase \in {"request", "write"}})

Successes == {x \in DOMAIN fetch : fetch[x].phase = "done" /\ fetch[x].result.success}

MirrorReturned == inv[RootId].pc = "returned"

ListingFailed == {id \in DOMAIN inv : inv[id].request = "failed"}

ListingErrorLogged(id) ==
  [level |-> "error", msg |-> "Error fetching directory contents", at |-> id] \in log

DownloadErrorLogged(x) ==
  [level |-> "error", msg |-> "Error downloading", at |-> x] \in log

EmptyResultLogged ==
  [level |-> "error", msg |-> "No files were downloaded", at |-> <<>>] \in log

\* C1: in every reachable state, every downloadDirectory invocation has at
\* most chunkSize (5) of its file fetches dispatched and not yet completed.
C1_BatchBound == \A id \in DOMAIN inv : InFlight(id) <= chunkSize

C3_CompletedAtMostTotal == progressBar.curr <= progressBar.total

\* C3 witness: every file known so far is counted as completed while a
\* listing that will add files to the total is still in flight.
C3_Witness ==
  /\ progressBar.curr = progressBar.total /\ progressBar.total > 0
  /\ \E id \in DOMAIN inv :
       /\ inv[id].pc = "listing"
       /\ Len(ParseListing(PageOf(Markup(remote), DirPathOf(id)), DirPathOf(id)).files) > 0

\* C4: once the mirror has returned, its count and progressBar.curr both
\* equal the number of fetches that produced success = true.
C4_CountIsSuccesses ==
  MirrorReturned =>
    /\ inv[RootId].result = Cardinality(Successes)
    /\ downloaded = Cardinality(Successes)
    /\ progressBar.curr = Cardinality(Successes)

\* C4 witness: a returned mirror over more than one level with successes at
\* two levels and a failed fetch.
C4_Witness ==
  /\ MirrorReturned
  /\ \E x, y \in Successes : Len(x[1]) # Len(y[1])
  /\ \E x \in DOMAIN fetch : ~fetch[x].result.success

\* C5: when the mirror has returned zero, the run has exited with the
\* empty-result error and none of the later steps has run.
C5_EmptyResultAborts ==
  (MirrorReturned /\ inv[RootId].result = 0) =>
    /\ pcMain = "exited"
    /\ EmptyResultLogged
    /\ steps = {}
    /\ ~[level |-> "success", msg |-> "Template files downloaded successfully", at |-> <<>>] \in log

\* C5 witness: a walk over several directories in which files were found but
\* none was downloaded.
C5_Witness ==
  /\ MirrorReturned /\ inv[RootId].result = 0 /\ pcMain = "exited"
  /\ Cardinality(DOMAIN inv) > 1
  /\ DOMAIN fetch # {}

Failures(id) ==
  {x \in DOMAIN fetch : x[1] = id /\ fetch[x].phase = "done" /\ ~fetch[x].result.success}

\* C6: a failed fetch aborts nothing. Every file of a listing gets its fetch;
\* once a call is past its batches all n fetches have completed, its own
\* count is n minus the number that failed, and a call was made for every
\* listed subdirectory; the run exits only after the mirror has returned;
\* and a failed fetch is printed as an error exactly when its failure is not
\* a 404 response.
C6_FetchFailureIsLocal ==
  /\ \A id \in DOMAIN inv :
       LET n == Len(inv[id].files) IN
       /\ inv[id].request # "pending" => \A k \in 1..n : <<id, k>> \in DOMAIN fetch
       /\ inv[id].pc \in {"dirs", "returned"} =>
            /\ \A k \in 1..n : fetch[<<id, k>>].phase = "done"
            /\ inv[id].downloadedFiles = n - Cardinality(Failures(id))
            /\ ChildIds(inv, id) \subseteq DOMAIN inv
  /\ pcMain # "mirror" =>
       /\ MirrorReturned
       /\ \A id \in DOMAIN inv : inv[id].pc = "returned"
  /\ \A x \in DOMAIN fetch :
       DownloadErrorLogged(x) <=>
         /\ fetch[x].phase = "done"
         /\ ~fetch[x].result.success
         /\ fetch[x].req # "notfound"

\* C6 witness: a directory with two files, one of which was not found while
\* the other was downloaded, whose subdirectory was then mirrored, in a run
\* that went through to the end.
C6_Witness ==
  /\ pcMain = "done"
  /\ \E id \in DOMAIN inv :
       /\ Len(inv[id].files) = 2 /\ Len(inv[id].dirs) >= 1
       /\ \E x \in Failures(id) : fetch[x].req = "notfound"
       /\ inv[id].downloadedFiles = 1

\* C7: downloadFile always settles with a result for its file, and the
\* result's success is true exactly when the request returned the content
\* and the write went through (the file is then in the target directory).
C7_DownloadFileResult ==
  \A x \in DOMAIN fetch :
    /\ fetch[x].phase = "done" =>
         /\ fetch[x].result.path = FullPathOf(x[1], inv[x[1]].files[x[2]])
         /\ fetch[x].result.success <=> (fetch[x].req = "ok" /\ fetch[x].write = "ok")
         /\ fetch[x].result.success => TargetPathOf(fetch[x].result.path) \in localFiles
    /\ fetch[x].phase # "done" => fetch[x].result = NoResult

\* C7 witness: one directory saw all the outcomes: a download, a request that
\* was not found, a request that failed otherwise and a write that failed.
C7_Witness ==
  \E id \in DOMAIN inv :
    /\ \E x \in Successes : x[1] = id
    /\ \E x \in Failures(id) : fetch[x].req = "notfound"
    /\ \E x \in Failures(id) : fetch[x].req = "error"
    /\ \E x \in Failures(id) : fetch[x].write = "fail"

\* The files of the remote tree, as paths below the template's directory.
RemoteFiles ==
  UNION { {d \o <<FileNameSeq[j]>> : j \in 1..remote.tree.nf[d]} : d \in remote.tree.dirs }

\* C10: when the mirror has returned and every listing and every fetch
\* succeeded, the local files are exactly the remote files with the
\* template's prefix stripped, and the count is the number of remote files.
C10_MirrorIsExact ==
  ( /\ MirrorReturned /\ "package" \notin steps /\ "report" \notin steps
    /\ ListingFailed = {}
    /\ \A x \in DOMAIN fetch : fetch[x].result.success )
  => /\ localFiles = RemoteFiles
     /\ inv[RootId].result = Cardinality(RemoteFiles)

\* C8 as stated: a rename that fails stops nothing: the walk does not end on
\* a directory it cannot read, and a directory whose rename failed has been
\* read under the name it still has.
C8_RenameFailureNonFatal ==
  /\ walk.error # "ENOENT"
  /\ \A w \in warned :
       w.kind = "dir" => [pass |-> w.pass, path |-> w.path] \in entered

AllRenamesWentThrough(pass) == \A w \in warned : w.pass # pass

SecondPassIsNoOp ==
  /\ \A r \in renamed : r.pass # 2
  /\ AllRenamesWentThrough(2)
  /\ tree = afterFirst
  /\ walk.pc # "threw"

\* C9 as stated: after a first pass in which every rename went through, a
\* second pass renames nothing and leaves the tree as it was, whatever the
\* names.
C9_Idempotent ==
  (walk.pass = 2 /\ AllRenamesWentThrough(1)) => SecondPassIsNoOp

\* Whether a name holds an encoded percent sign, %25.
HasEncodedPercent(name) ==
  \E j \in 1..(Len(name) - 2) : SubSeq(name, j, j + 2) = <<"%", "2", "5">>

NoEncodedPercent(f) == \A q \in DOMAIN f : ~HasEncodedPercent(q[Len(q)])

\* C9 amended: the same, for the trees none of whose names holds an encoded
\* percent sign (a name with one decodes to a name that is itself encoded).
C9_IdempotentWithoutEncodedPercent ==
  (walk.pass = 2 /\ AllRenamesWentThrough(1) /\ NoEncodedPercent(start))
    => SecondPassIsNoOp

\* C9 witness: a second pass has completed over a tree in which the first
\* pass renamed a directory and then an entry inside it.
C9_Witness ==
  /\ walk.pass = 2 /\ walk.pc = "done"
  /\ AllRenamesWentThrough(1) /\ NoEncodedPercent(start)
  /\ \E r, c \in renamed :
       /\ r.pass = 1 /\ c.pass = 1
       /\ Len(r.from) = 1 /\ start[r.from] = "dir"
       /\ Len(c.from) = 2 /\ IsPrefix(r.to, c.from)

\* The path an entry of the start tree is to have after a pass: every
\* segment decoded.
DecodedPathOf(q) == [j \in 1..Len(q) |-> decodeURIComponent(q[j]).value]

FirstPassCompleted ==
  /\ walk.pass = 1 /\ walk.pc = "done"
  /\ AllRenamesWentThrough(1)

\* C11: after a first pass that completed with every rename going through,
\* the tree holds, for every entry of the tree the pass started from, an
\* entry of its kind at the path with every segment decoded, and nothing
\* else: entries inside a renamed directory included.
C11_EveryEntryDecoded ==
  FirstPassCompleted =>
    /\ DOMAIN tree = {DecodedPathOf(q) : q \in DOMAIN start}
    /\ \A q \in DOMAIN start : tree[DecodedPathOf(q)] = start[q]

\* C12: every name getFilesInDirectory returned, as a file or as a
\* directory, is one segment long: a direct child of the queried path,
\* whatever links the page carried.
C12_OnlyDirectChildren ==
  \A id \in DOMAIN inv :
    /\ \A j \in 1..Len(inv[id].files) : Len(inv[id].files[j]) = 1
    /\ \A j \in 1..Len(inv[id].dirs) : Len(inv[id].dirs[j]) = 1

\* The invocations whose listing has been obtained.
Listed == {id \in DOMAIN inv : inv[id].request # "pending"}

RECURSIVE FilesListed(_)
FilesListed(S) ==
  IF S = {} THEN 0
  ELSE LET id == CHOOSE x \in S : TRUE IN Len(inv[id].files) + FilesListed(S \ {id})

\* C13: progressBar.total is the sum of files.length over the listings
\* obtained so far, in every reachable state (whatever the order in which
\* the listings of sibling directories arrived), and once the mirror has
\* returned every listing is among them.
C13_TotalIsFilesListed ==
  /\ progressBar.total = FilesListed(Listed)
  /\ MirrorReturned => Listed = DOMAIN inv

\* C13 witness: of two sibling directories the second listed has its
\* listing, with a file in it, while the listing of the first, which will
\* add a file, is still in flight.
C13_Witness ==
  /\ <<<<"d2">>>> \in Listed /\ Len(inv[<<<<"d2">>>>].files) > 0
  /\ <<<<"d1">>>> \in DOMAIN inv /\ inv[<<<<"d1">>>>].pc = "listing"
  /\ remote.tree.nf[<<"d1">>] > 0

\* Whether updateWorkspaceVersions has run.
VersionsUpdated == "versions" \in steps

\* The version the caller gave, 'latest' when it gave none.
SuppliedVersion == IF args.version = <<>> THEN <<"latest">> ELSE args.version

\* The entries of a section that carried the marker before the update.
Marked(sec) == {pkg \in DOMAIN sec.entries : Includes(sec.entries[pkg], WorkspaceMarker)}

\* C14: once updateWorkspaceVersions has run, every entry of dependencies
\* and of devDependencies whose version included 'workspace:*' has the
\* caller's version in package.json ('latest' if the caller gave none),
\* whatever the shape of the manifest and from either entry point.
C14_MarkedEntriesRewritten ==
  VersionsUpdated =>
    /\ \A pkg \in Marked(manifest0.dependencies) :
         manifest.dependencies.entries[pkg] = SuppliedVersion
    /\ \A pkg \in Marked(manifest0.devDependencies) :
         manifest.devDependencies.entries[pkg] = SuppliedVersion

\* Whether updateApiKey has run.
ApiKeyUpdated == "apikey" \in steps

\* The content with the key, as it is, in place of every default key.
RECURSIVE WithKeyForDefault(_, _)
WithKeyForDefault(content, key) ==
  IF content = <<>> THEN <<>>
  ELSE (IF Head(content) = defaultApiKey THEN key ELSE <<Head(content)>>)
       \o WithKeyForDefault(Tail(content), key)

\* C15: once updateApiKey has run, a file whose name ends in an extension of
\* the allow-list and whose content held the default key holds the supplied
\* key in place of every occurrence of it; every other file is as it was;
\* and without a key every file is as it was.
C15_OnlyKeyedTextFilesChange ==
  ApiKeyUpdated =>
    /\ Len(project) = Len(project0)
    /\ \A j \in 1..Len(project0) :
         IF /\ args.apiKey # <<>>
            /\ IsTextFile(project0[j].name)
            /\ HasDefaultKey(project0[j].content)
         THEN /\ project[j].name = project0[j].name
              /\ project[j].content = WithKeyForDefault(project0[j].content, args.apiKey)
         ELSE project[j] = project0[j]

\* The characters of a project name: letters (of the ASCII alphabet),
\* digits, the dash and the underscore.
NameChars == {"a", "Z", "7", "-", "_"}

\* C16: an answer to the project-name prompt is accepted exactly when it is
\* not empty and made of letters, digits, dashes and underscores only; a
\* rejected answer comes with a message and the prompt asks again.
C16_NameValidation ==
  nameQuestion.pc \in {"asking", "answered"} /\ nameQuestion # [NotAsked EXCEPT !.pc = "asking"]
  => /\ nameQuestion.result.ok <=>
          /\ nameQuestion.input # <<>>
          /\ Range(nameQuestion.input) \subseteq NameChars
     /\ ~nameQuestion.result.ok => nameQuestion.result.message # ""
     /\ nameQuestion.result.ok <=> nameQuestion.pc = "answered"

\* C16 witness: a name of three characters with a dash and an underscore in
\* it was accepted.
C16_Witness ==
  /\ nameQuestion.pc = "answered"
  /\ Len(nameQuestion.input) = MaxNameLen
  /\ {"-", "_"} \subseteq Range(nameQuestion.input)

\* The examples filterTemplates is to select.
Selected ==
  { e \in Range(templates.examples) :
      /\ categorizeTemplate(e).matched
      /\ categorizeTemplate(e).framework = templates.framework
      /\ categorizeTemplate(e).gen = templates.gen }

\* C17: the choices of the template question are exactly the examples whose
\* category has the chosen framework and generation (an example once, in the
\* order of the examples); a categorized example is Gen1 exactly when its
\* name starts with 'gen1-'; an example whose name, with or without that
\* prefix, starts with react-native or react-sdk is not React; and the run
\* exits with an error exactly when no example is selected.
C17_FilterSelectsByCategory ==
  /\ templates.pc = "choices" =>
       /\ {templates.choices[j].value : j \in 1..Len(templates.choices)} = Selected
       /\ Len(templates.choices) = Cardinality(Selected)
       /\ Selected # {}
  /\ (templates.pc = "exited" /\ templates.examples # <<>>) =>
       /\ Selected = {}
       /\ [level |-> "error", msg |-> "No templates found for",
           at |-> <<templates.framework, templates.gen>>] \in log
  /\ \A e \in Range(templates.examples) :
       LET c == categorizeTemplate(e) IN
       /\ c.matched => (c.gen = "Gen1" <=> StartsWith(e, Gen1Prefix))
       /\ \A name \in {e, ReplaceFirst(e, Gen1Prefix)} :
            (StartsWith(name, W_reactNative) \/ StartsWith(name, W_reactSdk))
              => c.framework # "React"

\* C17 witness: of gen1-react and gen1-react-native, the filter for React
\* and Gen1 chose the first alone.
C17_Witness ==
  /\ templates.pc = "choices"
  /\ templates.framework = "React" /\ templates.gen = "Gen1"
  /\ Range(templates.examples) = {Gen1Prefix \o W_react, Gen1Prefix \o W_reactNative}
  /\ Len(templates.choices) = 1
  /\ templates.choices[1].value = Gen1Prefix \o W_react

\* The batch the k-th file of a listing is awaited in (from 0).
BatchOf(k) == (k - 1) \div chunkSize

\* C18: a fetch has been dispatched only if every fetch of the batches
\* before its own, in the same directory, has completed.
C18_BatchOrder ==
  \A x \in DOMAIN fetch :
    \A k \in 1..Len(inv[x[1]].files) :
      BatchOf(k) < BatchOf(x[2]) =>
        <<x[1], k>> \in DOMAIN fetch /\ fetch[<<x[1], k>>].phase = "done"

\* The steps that come after decodeFilePaths.
AfterDecode == {"package", "versions", "apikey", "done"}

\* C19: a call of downloadDirectory has returned only if every fetch of its
\* listing has completed and every call for a subdirectory of it has
\* returned; downloadTemplate is past the mirror only if every call has
\* returned and no fetch is in flight; and decodeFilePaths(targetDir) is
\* called once: it has not run when it is about to start and has run when
\* a later step is reached.
C19_FanIn ==
  /\ \A id \in DOMAIN inv :
       inv[id].pc = "returned" =>
         /\ \A k \in 1..Len(inv[id].files) :
              <<id, k>> \in DOMAIN fetch /\ fetch[<<id, k>>].phase = "done"
         /\ \A c \in ChildIds(inv, id) : c \in DOMAIN inv /\ inv[c].pc = "returned"
  /\ pcMain # "mirror" =>
       /\ \A id \in DOMAIN inv : inv[id].pc = "returned"
       /\ \A x \in DOMAIN fetch : fetch[x].phase = "done"
  /\ pcMain = "decode" => "decode" \notin steps
  /\ pcMain \in AfterDecode => "decode" \in steps

\* C19 witness: decodeFilePaths is about to start after a mirror of three
\* levels with a download at the top and one two levels down.
C19_Witness ==
  /\ pcMain = "decode"
  /\ \E x, y \in Successes : Len(x[1]) = 0 /\ Len(y[1]) = 2

\* The fetches made for the listing of invocation id.
FetchesOf(id) == {x \in DOMAIN fetch : x[1] = id}

\* C20: every name of an obtained listing has one fetch, made for it and no
\* other; a fetch never goes back to its request (nothing is requested a
\* second time), and once it has completed, with success or without, it stays
\* as it is; and when a fetch completes without success progressBar.curr is
\* what it was.
C20_FetchedOnceNoRetry ==
  /\ [](\A id \in Listed : FetchesOf(id) = {<<id, k>> : k \in 1..Len(inv[id].files)})
  /\ [][ \A x \in DOMAIN fetch :
           /\ x \in DOMAIN fetch'
           /\ fetch[x].phase = "done" => fetch'[x] = fetch[x]
           /\ fetch[x].phase = "write" => fetch'[x].phase # "request"
           /\ ( /\ fetch[x].phase # "done"
                /\ fetch'[x].phase = "done"
                /\ ~fetch'[x].result.success )
              => progressBar'.curr = progressBar.curr ]_allVars

\* C20 witness: the mirror has returned with a download and a failed fetch
\* in one directory, the bar one short of its total.
C20_Witness ==
  /\ MirrorReturned
  /\ \E id \in DOMAIN inv :
       /\ Failures(id) # {}
       /\ \E x \in Successes : x[1] = id
  /\ progressBar.curr = Cardinality(Successes)
  /\ progressBar.curr = progressBar.total - 1

\* C21: the files of a directory are all dispatched before the mirror
\* recurses. A call of downloadDirectory for a subdirectory exists only when
\* its parent's listing has arrived and every file of that listing has a
\* fetch that was started.
C21_DispatchedBeforeRecursing ==
  \A id \in DOMAIN inv \ {RootId} :
    LET parent == SubSeq(id, 1, Len(id) - 1) IN
    /\ parent \in DOMAIN inv
    /\ inv[parent].pc \in {"dirs", "returned"}
    /\ \A k \in 1..Len(inv[parent].files) : <<parent, k>> \in DOMAIN fetch

\* A call for a subdirectory has just been started (its listing request is
\* in flight) by a directory that listed two files.
C21_Witness ==
  \E id \in DOMAIN inv \ {RootId} :
    /\ inv[id].pc = "listing"
    /\ Len(inv[SubSeq(id, 1, Len(id) - 1)].files) >= 2
    /\ \A k \in 1..2 : <<SubSeq(id, 1, Len(id) - 1), k>> \in DOMAIN fetch

\* The calls of downloadDirectory that have issued a request: their listing
\* request, or the request of a fetch.
Issuers == DOMAIN inv \cup {x[1] : x \in DOMAIN fetch}

\* The calls for the directories above that of call id.
Ancestors(id) == {SubSeq(id, 1, j) : j \in 0..(Len(id) - 1)}

\* C23: the fetches of a directory and the work of its subdirectories never
\* overlap. Once a call for a directory below it has issued a listing request
\* or a fetch, every fetch of the directory's own listing has completed, with
\* a result that is a success or a failure.
C23_NoOverlap ==
  \A id \in Issuers : \A anc \in Ancestors(id) :
    /\ anc \in DOMAIN inv
    /\ \A k \in 1..Len(inv[anc].files) :
         /\ <<anc, k>> \in DOMAIN fetch
         /\ fetch[<<anc, k>>].phase = "done"
         /\ fetch[<<anc, k>>].result # NoResult

\* A subdirectory's call has issued a fetch of its own, below a directory
\* one of whose fetches failed.
C23_Witness ==
  \E x \in DOMAIN fetch :
    /\ x[1] # RootId
    /\ fetch[x].phase = "request"
    /\ \E k \in 1..Len(inv[RootId].files) :
         /\ <<RootId, k>> \in DOMAIN fetch
         /\ fetch[<<RootId, k>>].phase = "done"
         /\ ~fetch[<<RootId, k>>].result.success

\* The requests that have been issued and have not completed: the calls
\* whose listing request is in flight, and the fetches whose request or
\* write is.
Pending ==
  {id \in DOMAIN inv : inv[id].request = "pending"}
  \cup {x \in DOMAIN fetch : fetch[x].phase # "done"}

\* C22: when every listing request and every fetch is answered, the mirror
\* returns in the end, and downloadTemplate has its count; and as long as a
\* single listing request or fetch has not completed, the mirror has not
\* returned and no later step has run.
C22_Termination ==
  /\ <>(MirrorReturned /\ pcMain # "mirror" /\ downloaded = inv[RootId].result)
  /\ [](Pending # {} => ~MirrorReturned /\ pcMain = "mirror" /\ steps = {})

\* The mirror of a tree of three levels has returned with two downloads,
\* one at the top and one two levels down.
C22_Witness ==
  /\ MirrorReturned
  /\ inv[RootId].result = 2
  /\ \E x, y \in Successes : Len(x[1]) = 0 /\ Len(y[1]) = 2

====
